---- MODULE Spec2Model ----
(***************************************************************************)
(* State-machine model of the gameplay simulation of MainScene             *)
(* (src/src/scenes/MainScene.ts): block motion, placement judgment,        *)
(* scoring, pause / game over / restart, deferred spawning.                *)
(*                                                                         *)
(* Numbers.  Positions and velocities are JavaScript numbers; here they    *)
(* are fixed-point integers in units of 1/Scale pixel.  Time is counted in *)
(* reference frames (16.667 ms), so the deltaTime of update() is the       *)
(* difference of two clock values.  With whole-frame clock values every    *)
(* product of the motion code is exact except the multiplication by the    *)
(* bounce elasticity, which is truncated toward zero.                      *)
(***************************************************************************)
EXTENDS Integers, Sequences, FiniteSets, TLC

\* ---------------------------------------------------------------- bounds
\* Largest clock value (in reference frames) at which a frame is delivered, in Spec.
MaxTime == 3
\* The same in the specification SpecTower.
MaxTowerTime == 2
\* Largest gap, in reference frames, between two delivered frames.
MaxGap == 1
\* Blocks created in a run (over all its games), and entries of a stack, in Spec.
MaxBlocks == 4
\* The same in the specification SpecTower.
MaxTower == 9
\* Restarts in a run.
MaxRestarts == 1
\* SpecMotion: the gap between two delivered frames (half a second at 60 Hz, a
\* stalled tab), the frames delivered and the blocks created in a run.
MotionGap == 30
MaxMotionFrames == 3
MaxMotionBlocks == 4
\* SpecLevels: the largest level a game starts at, the largest clock value and the
\* blocks created in a run.
MaxLevel == 25
MaxLevelTime == 2
MaxLevelBlocks == 3
\* SpecOscillate: the largest clock value and the frames within which the block
\* is to reach each wall.
MaxOscTime == 440
OscHorizon == 220
\* SpecCamera: the blocks created and the frames delivered in a run.
MaxCamera == 10
MaxCameraFrames == 2

\* ------------------------------------------------------- program constants
Scale == 1000
GameWidth == 800
GameHeight == 600
BLOCK_BASE_HEIGHT == 50
MAX_MULTIPLIER == 5
\* BLOCK_ACCELERATION = 0.2 and BLOCK_BOUNCE_ELASTICITY = 0.8, in tenths.
BLOCK_ACCELERATION == 2
BLOCK_BOUNCE_ELASTICITY == 8
MAX_BLOCK_SPEED == 8
BLOCK_SNAP_THRESHOLD == 10
GROUND_OFFSET == 100
MIN_BLOCKS_FOR_CAMERA == 8
\* The perfect-placement threshold of placeBlock (distance < 5).
PERFECT_THRESHOLD == 5
\* The points of handlePerfectPlacement (50 * multiplier) and updateScore (+= 10).
BONUS_UNIT == 50
PLACEMENT_POINTS == 10
\* updateScore levels up when stackedBlocks.length % 5 === 0.
LEVEL_UP_EVERY == 5

\* n pixels (or pixels per frame) as a fixed-point number.
Px(n) == n * Scale

Min(a, b) == IF a < b THEN a ELSE b
Max(a, b) == IF a > b THEN a ELSE b
Abs(a) == IF a < 0 THEN -a ELSE a
\* Phaser.Math.Clamp(value, min, max)
Clamp(v, lo, hi) == Max(lo, Min(hi, v))

\* blockTypes: width and height in pixels, speed in fixed point.
blockTypes ==
  << [width |-> 100, height |-> 50, speed |-> Px(2)],
     [width |-> 150, height |-> 50, speed |-> Px(5) \div 2],
     [width |-> 80,  height |-> 50, speed |-> Px(3)],
     [width |-> 100, height |-> 50, speed |-> Px(7) \div 2] >>

\* getCurrentBlockConfig without the cap of the speed increase (mutant for C26).
getCurrentBlockConfigUncapped(lv) ==
  LET index == Min(((lv - 1) \div 3) % Len(blockTypes), Len(blockTypes) - 1)
      baseConfig == blockTypes[index + 1]
  IN  [width |-> baseConfig.width, height |-> baseConfig.height,
       speed |-> baseConfig.speed + ((lv - 1) * Scale) \div 10]

\* getCurrentBlockConfig() for this.level = lv (sequences are 1-based).
getCurrentBlockConfig(lv) ==
  LET index == Min(((lv - 1) \div 3) % Len(blockTypes), Len(blockTypes) - 1)
      baseConfig == blockTypes[index + 1]
      speedIncrease == Min(((lv - 1) * Scale) \div 10, Px(2))
  IN  [width |-> baseConfig.width, height |-> baseConfig.height,
       speed |-> baseConfig.speed + speedIncrease]

\* margin = config.width / 2, in fixed point.
Margin(lv) == Px(getCurrentBlockConfig(lv).width) \div 2

\* this.placementGuide is declared and never assigned: it stays undefined.
placementGuide == FALSE

VARIABLES
  score, highScore, perfectStreak, level,  \* ScoreState
  gameOver, isPaused,                      \* phase flags
  blocks,            \* the Rectangle objects created in this scene run: id -> [x, y]
  stackedBlocks,     \* sequence of block ids, bottom to top
  currentBlock,      \* id of this.currentBlock (0: undefined)
  moveSpeed, currentVelocity, lastFrameTime,   \* motion state
  time,              \* the engine clock, in reference frames
  pendingSpawns,     \* placeBlock calls suspended at their await (delayedCall pending)
  cameraTargetY,     \* target of the last camera pan / setScroll
  storage,           \* localStorage 'cityBloxxState'.highScore (0: no item)
  gameHeight,        \* this.gameHeight, the height of the canvas read by create()
  cameraPans,        \* camera pans started by the spawns of this game
  created,           \* blocks created so far in this run, over all its games
  restarts,          \* scene restarts so far in this run
  op                 \* the operation the last step performed

vars == << score, highScore, perfectStreak, level, gameOver, isPaused, blocks,
           stackedBlocks, currentBlock, moveSpeed, currentVelocity, lastFrameTime,
           time, pendingSpawns, cameraTargetY, storage, gameHeight, cameraPans,
           created, restarts, op >>

\* baseY = gameHeight - GROUND_OFFSET (create)
baseY == Px(gameHeight - GROUND_OFFSET)

\* The operands of the judge: top of the stack and the active block.
TopBlock == blocks[stackedBlocks[Len(stackedBlocks)]]
Active == blocks[currentBlock]
Distance == Abs(TopBlock.x - Active.x)

\* -------------------------------------------------------------- operations

\* createNewBlock() retargets the camera with the reversed difference, 0.3 * height
\* minus the block's y (mutant for C14).
createNewBlockReversed(stk, blks, lv, cam, randomX, dir) ==
  LET config == getCurrentBlockConfig(lv)
      y == IF Len(stk) > 0 THEN blks[stk[Len(stk)]].y - Px(BLOCK_BASE_HEIGHT) ELSE baseY
      visibleStackHeight == (Len(stk) + 1) * BLOCK_BASE_HEIGHT
      shouldScroll == visibleStackHeight * 10 > gameHeight * 6
      targetY == Max(0, (Px(gameHeight) * 3) \div 10 - y)
  IN  [blocks |-> Append(blks, [x |-> Px(randomX), y |-> y]),
       currentBlock |-> Len(blks) + 1,
       cameraTargetY |-> IF Len(stk) >= MIN_BLOCKS_FOR_CAMERA /\ shouldScroll
                         THEN targetY ELSE cam,
       moveSpeed |-> config.speed * dir]

\* createNewBlock() panning the camera from 8 blocks on, however tall the stack is
\* on the screen (mutant for C23).
createNewBlockNoScrollTest(stk, blks, lv, cam, randomX, dir) ==
  LET config == getCurrentBlockConfig(lv)
      y == IF Len(stk) > 0 THEN blks[stk[Len(stk)]].y - Px(BLOCK_BASE_HEIGHT) ELSE baseY
      targetY == Max(0, y - (Px(gameHeight) * 3) \div 10)
  IN  [blocks |-> Append(blks, [x |-> Px(randomX), y |-> y]),
       currentBlock |-> Len(blks) + 1,
       cameraTargetY |-> IF Len(stk) >= MIN_BLOCKS_FOR_CAMERA THEN targetY ELSE cam,
       moveSpeed |-> config.speed * dir]

\* createNewBlock() on the stack stk starts a camera pan (lines 426-432).
CameraFollows(stk) ==
  /\ Len(stk) >= MIN_BLOCKS_FOR_CAMERA
  /\ (Len(stk) + 1) * BLOCK_BASE_HEIGHT * 10 > gameHeight * 6

\* createNewBlock() with Phaser.Math.Between(...) = randomX (pixels) and the random
\* direction dir (1 or -1).  Yields the changed fields.
createNewBlock(stk, blks, lv, cam, randomX, dir) ==
  LET config == getCurrentBlockConfig(lv)
      y == IF Len(stk) > 0 THEN blks[stk[Len(stk)]].y - Px(BLOCK_BASE_HEIGHT) ELSE baseY
      visibleStackHeight == (Len(stk) + 1) * BLOCK_BASE_HEIGHT
      shouldScroll == visibleStackHeight * 10 > gameHeight * 6
      targetY == Max(0, y - (Px(gameHeight) * 3) \div 10)
  IN  [blocks |-> Append(blks, [x |-> Px(randomX), y |-> y]),
       currentBlock |-> Len(blks) + 1,
       cameraTargetY |-> IF Len(stk) >= MIN_BLOCKS_FOR_CAMERA /\ shouldScroll
                         THEN targetY ELSE cam,
       moveSpeed |-> config.speed * dir]

\* The values Phaser.Math.Between(margin, gameWidth - margin) can return.
InRange(lv, randomX) == Px(randomX) >= Margin(lv) /\ Px(randomX) <= Px(GameWidth) - Margin(lv)

\* Phaser.Math.Linear(p0, p1, t) with t = num / den, truncated toward zero.
Linear(p0, p1, num, den) ==
  LET prod == (p1 - p0) * num
  IN  p0 + (IF prod >= 0 THEN prod \div den ELSE -((-prod) \div den))

\* A bounce that loses no speed (mutant for C25).
BounceVelocityElastic(v) == -v

\* velocity * -BLOCK_BOUNCE_ELASTICITY, truncated toward zero.
BounceVelocity(v) ==
  IF v >= 0 THEN -((v * BLOCK_BOUNCE_ELASTICITY) \div 10)
            ELSE ((-v) * BLOCK_BOUNCE_ELASTICITY) \div 10

\* Accelerate without the clamp (mutant for C11).
AccelerateUnclamped(v, ms, deltaTime) ==
  v + (ms * BLOCK_ACCELERATION * deltaTime) \div 10

\* update(): the acceleration and clamp of the velocity (lines 283-291).
Accelerate(v, ms, deltaTime) ==
  Clamp(v + (ms * BLOCK_ACCELERATION * deltaTime) \div 10,
        -Px(MAX_BLOCK_SPEED), Px(MAX_BLOCK_SPEED))

\* MoveAndBounce that keeps the direction of moveSpeed at a wall (mutant for C27).
MoveAndBounceNoFlip(x, v, ms, deltaTime, margin) ==
  LET x1 == x + v * deltaTime
  IN  IF x1 >= Px(GameWidth) - margin
      THEN [x |-> Px(GameWidth) - margin, velocity |-> BounceVelocity(v), moveSpeed |-> ms]
      ELSE IF x1 <= margin
      THEN [x |-> margin, velocity |-> BounceVelocity(v), moveSpeed |-> ms]
      ELSE [x |-> x1, velocity |-> v, moveSpeed |-> ms]

\* MoveAndBounce without the test of the right edge (mutant for C10).
MoveAndBounceLeftOnly(x, v, ms, deltaTime, margin) ==
  LET x1 == x + v * deltaTime
  IN  IF x1 <= margin
      THEN [x |-> margin, velocity |-> BounceVelocity(v), moveSpeed |-> -ms]
      ELSE [x |-> x1, velocity |-> v, moveSpeed |-> ms]

\* update(): the move and the bounce off the screen edges (lines 293-307), from
\* position x with the clamped velocity v.  Yields [x, velocity, moveSpeed].
MoveAndBounce(x, v, ms, deltaTime, margin) ==
  LET x1 == x + v * deltaTime
  IN  IF x1 >= Px(GameWidth) - margin
      THEN [x |-> Px(GameWidth) - margin, velocity |-> BounceVelocity(v), moveSpeed |-> -ms]
      ELSE IF x1 <= margin
      THEN [x |-> margin, velocity |-> BounceVelocity(v), moveSpeed |-> -ms]
      ELSE [x |-> x1, velocity |-> v, moveSpeed |-> ms]

\* update(): the snapping of lines 309-324, which runs only with a placement guide.
Snap(x, deltaTime) ==
  IF placementGuide /\ Len(stackedBlocks) > 0
  THEN LET distance == Abs(TopBlock.x - x)
       IN  IF distance < Px(BLOCK_SNAP_THRESHOLD)
           THEN Linear(x, TopBlock.x, (Px(BLOCK_SNAP_THRESHOLD) - distance) * deltaTime,
                       Px(BLOCK_SNAP_THRESHOLD) * 10)
           ELSE x
  ELSE x

\* updateHighScore() on the fields [score, highScore, storage]; saveOk is FALSE
\* when localStorage.setItem throws.  Its only caller is updateScore().
updateHighScore(f, saveOk) ==
  IF f.score > f.highScore
  THEN [f EXCEPT !.highScore = f.score,
                 !.storage = IF saveOk THEN f.score ELSE f.storage]
  ELSE f

\* updateScore() on the fields [score, highScore, storage, level] with a stack of
\* n blocks.  No function of the scene calls it.
updateScore(f, n, saveOk) ==
  LET g == updateHighScore([score |-> f.score + PLACEMENT_POINTS,
                            highScore |-> f.highScore, storage |-> f.storage], saveOk)
  IN  [score |-> g.score, highScore |-> g.highScore, storage |-> g.storage,
       level |-> IF n % LEVEL_UP_EVERY = 0 THEN f.level + 1 ELSE f.level]

\* updateIgnored without the test of gameOver (mutant for C7).
updateIgnoredNoGameOver == currentBlock = 0 \/ isPaused

\* The early return of update() (line 277).
updateIgnored == gameOver \/ currentBlock = 0 \/ isPaused

\* placeBlockIgnored without the test of isPaused (mutant for C8).
placeBlockIgnoredNoPause == gameOver \/ currentBlock = 0

\* The early return of placeBlock() (line 514).
placeBlockIgnored == gameOver \/ currentBlock = 0 \/ isPaused

\* update(time, delta), called by the engine with the clock value t.
update(t) ==
  /\ time' = t
  /\ op' = "update"
  /\ IF updateIgnored
     THEN UNCHANGED << score, highScore, perfectStreak, level, gameOver, isPaused,
                       blocks, stackedBlocks, currentBlock, moveSpeed, currentVelocity,
                       lastFrameTime, pendingSpawns, cameraTargetY, cameraPans, storage,
                       created, restarts, gameHeight >>
     ELSE LET deltaTime == IF lastFrameTime # 0 THEN t - lastFrameTime ELSE 1
              v1 == Accelerate(currentVelocity, moveSpeed, deltaTime)
              m == MoveAndBounce(Active.x, v1, moveSpeed, deltaTime, Margin(level))
          IN  /\ lastFrameTime' = t
              /\ currentVelocity' = m.velocity
              /\ moveSpeed' = m.moveSpeed
              /\ blocks' = [blocks EXCEPT ![currentBlock].x = Snap(m.x, deltaTime)]
              /\ UNCHANGED << score, highScore, perfectStreak, level, gameOver, isPaused,
                              stackedBlocks, currentBlock, pendingSpawns, cameraTargetY, cameraPans,
                              storage, created, restarts, gameHeight >>

\* togglePause()
togglePause ==
  /\ isPaused' = ~isPaused
  /\ op' = "togglePause"
  /\ UNCHANGED << score, highScore, perfectStreak, level, gameOver, blocks,
                  stackedBlocks, currentBlock, moveSpeed, currentVelocity, lastFrameTime,
                  time, pendingSpawns, cameraTargetY, cameraPans, storage, created,
                  restarts, gameHeight >>

\* Judge with a miss already at half a width, d >= w / 2 (mutant for C6).
JudgeMissAtHalf(n, d, w) ==
  IF n = 0 THEN "First"
  ELSE IF 2 * d >= Px(w) THEN "Miss"
  ELSE IF d < Px(PERFECT_THRESHOLD) THEN "Perfect"
  ELSE "Ordinary"

\* The judge of placeBlock() (lines 531-545) on a stack of n blocks, the distance d
\* to its top and the configured width w.
Judge(n, d, w) ==
  IF n = 0 THEN "First"
  ELSE IF 2 * d > Px(w) THEN "Miss"
  ELSE IF d < Px(PERFECT_THRESHOLD) THEN "Perfect"
  ELSE "Ordinary"

\* bonusPoints without the cap of the multiplier (mutant for C3).
bonusPointsUncapped(streak) == BONUS_UNIT * streak

\* handlePerfectPlacement(): bonusPoints for the incremented streak.
bonusPoints(streak) == BONUS_UNIT * Min(streak, MAX_MULTIPLIER)

\* The verdict placeBlock() reaches in the current state.
Verdict ==
  Judge(Len(stackedBlocks),
        IF Len(stackedBlocks) > 0 THEN Distance ELSE 0,
        getCurrentBlockConfig(level).width)

\* placeBlock(), up to its await; randomX and dir are the random draws of the
\* createNewBlock() it calls when it does not wait.  maxB bounds the tower.
placeBlock(randomX, dir, maxB) ==
  /\ op' = "placeBlock"
  /\ IF placeBlockIgnored
     THEN UNCHANGED << score, highScore, perfectStreak, level, gameOver, isPaused,
                       blocks, stackedBlocks, currentBlock, moveSpeed, currentVelocity,
                       lastFrameTime, time, pendingSpawns, cameraTargetY, cameraPans, storage,
                       created, restarts, gameHeight >>
     ELSE IF Verdict = "Miss"
     THEN \* handleGameOver()
          /\ gameOver' = TRUE
          /\ UNCHANGED << score, highScore, perfectStreak, level, isPaused, blocks,
                          stackedBlocks, currentBlock, moveSpeed, currentVelocity,
                          lastFrameTime, time, pendingSpawns, cameraTargetY, cameraPans, storage,
                          created, restarts, gameHeight >>
     ELSE LET stk == Append(stackedBlocks, currentBlock)
              new == createNewBlock(stk, blocks, level, cameraTargetY, randomX, dir)
          IN  /\ Len(stackedBlocks) < maxB
              /\ created < maxB
              /\ InRange(level, randomX)
              /\ IF Verdict = "Perfect"
                 THEN \* handlePerfectPlacement()
                      /\ perfectStreak' = perfectStreak + 1
                      /\ score' = score + bonusPoints(perfectStreak + 1)
                 ELSE UNCHANGED << perfectStreak, score >>
              /\ stackedBlocks' = stk
              /\ IF Len(stk) >= MIN_BLOCKS_FOR_CAMERA
                 THEN \* await delayedCall(50): createNewBlock() runs later
                      /\ pendingSpawns' = pendingSpawns + 1
                      /\ UNCHANGED << blocks, currentBlock, cameraTargetY, cameraPans, moveSpeed,
                                      created >>
                 ELSE /\ created' = created + 1
                      /\ blocks' = new.blocks
                      /\ currentBlock' = new.currentBlock
                      /\ cameraTargetY' = new.cameraTargetY
                      /\ cameraPans' = cameraPans + (IF CameraFollows(stk) THEN 1 ELSE 0)
                      /\ moveSpeed' = new.moveSpeed
                      /\ UNCHANGED pendingSpawns
              /\ UNCHANGED << highScore, level, gameOver, isPaused, currentVelocity,
                              lastFrameTime, time, storage, restarts, gameHeight >>

\* delayedCall as a repeating timer event: it stays pending after it has fired
\* (mutant for C19).
delayedCallRepeating(randomX, dir, maxB) ==
  LET new == createNewBlock(stackedBlocks, blocks, level, cameraTargetY, randomX, dir)
  IN  /\ pendingSpawns > 0
      /\ created < maxB
      /\ InRange(level, randomX)
      /\ op' = "delayedCall"
      /\ created' = created + 1
      /\ blocks' = new.blocks
      /\ currentBlock' = new.currentBlock
      /\ cameraTargetY' = new.cameraTargetY
      /\ cameraPans' = cameraPans + (IF CameraFollows(stackedBlocks) THEN 1 ELSE 0)
      /\ moveSpeed' = new.moveSpeed
      /\ UNCHANGED << score, highScore, perfectStreak, level, gameOver, isPaused,
                      stackedBlocks, currentVelocity, lastFrameTime, time, storage,
                      restarts, gameHeight, pendingSpawns >>

\* The rest of a suspended placeBlock(): the delayed call fires and
\* createNewBlock() runs (line 558), whatever the phase is by then.
delayedCall(randomX, dir, maxB) ==
  LET new == createNewBlock(stackedBlocks, blocks, level, cameraTargetY, randomX, dir)
  IN  /\ pendingSpawns > 0
      /\ created < maxB
      /\ InRange(level, randomX)
      /\ op' = "delayedCall"
      /\ created' = created + 1
      /\ pendingSpawns' = pendingSpawns - 1
      /\ blocks' = new.blocks
      /\ currentBlock' = new.currentBlock
      /\ cameraTargetY' = new.cameraTargetY
      /\ cameraPans' = cameraPans + (IF CameraFollows(stackedBlocks) THEN 1 ELSE 0)
      /\ moveSpeed' = new.moveSpeed
      /\ UNCHANGED << score, highScore, perfectStreak, level, gameOver, isPaused,
                      stackedBlocks, currentVelocity, lastFrameTime, time, storage,
                      restarts, gameHeight >>

\* loadedHighScore falling back to 0 when nothing could be loaded (mutant for C13).
loadedHighScoreOrZero(old, loadOk) == IF loadOk THEN storage ELSE 0

\* init(): the high score read from local storage; loadOk is FALSE when
\* localStorage.getItem or JSON.parse throws.
loadedHighScore(old, loadOk) == IF loadOk /\ storage # 0 THEN storage ELSE old

\* scene.restart() from the game-over panel or the R key: the scene shuts down
\* (its objects and timers are destroyed), then init() and create() run.
\* perfectStreak, currentVelocity and lastFrameTime are fields init() does not touch.
restart(randomX, dir, loadOk, maxB) ==
  LET new == createNewBlock(<< >>, << >>, 1, 0, randomX, dir)
  IN  /\ gameOver
      /\ created < maxB
      /\ restarts < MaxRestarts
      /\ InRange(1, randomX)
      /\ op' = "restart"
      /\ restarts' = restarts + 1
      /\ created' = created + 1
      /\ score' = 0
      /\ level' = 1
      /\ gameOver' = FALSE
      /\ isPaused' = FALSE
      /\ stackedBlocks' = << >>
      /\ highScore' = loadedHighScore(highScore, loadOk)
      /\ pendingSpawns' = 0
      /\ blocks' = new.blocks
      /\ currentBlock' = new.currentBlock
      /\ cameraTargetY' = new.cameraTargetY
      /\ cameraPans' = 0
      /\ moveSpeed' = new.moveSpeed
      /\ UNCHANGED << perfectStreak, currentVelocity, lastFrameTime, time, storage,
                      gameHeight >>

\* The state after construction, init() and create(): field initialisers, then the
\* first block.  saved is what local storage holds, height the canvas height.
InitOver(Xs, Saved, Heights) ==
  \E randomX \in Xs, dir \in {1, -1}, saved \in Saved, loadOk \in BOOLEAN,
     height \in Heights :
    LET new == createNewBlock(<< >>, << >>, 1, 0, randomX, dir)
    IN  /\ gameHeight = height
        /\ cameraPans = 0
        /\ InRange(1, randomX)
        /\ score = 0 /\ level = 1 /\ perfectStreak = 0
        /\ gameOver = FALSE /\ isPaused = FALSE
        /\ stackedBlocks = << >>
        /\ storage = saved
        /\ highScore = (IF loadOk /\ saved # 0 THEN saved ELSE 0)
        /\ blocks = new.blocks
        /\ currentBlock = new.currentBlock
        /\ cameraTargetY = new.cameraTargetY
        /\ moveSpeed = new.moveSpeed
        /\ currentVelocity = 0
        /\ lastFrameTime = 0
        /\ time = 1
        /\ pendingSpawns = 0
        /\ created = 1
        /\ restarts = 0
        /\ op = "create"

\* One step of the engine or the player: a frame, a placement commit, a pause
\* toggle or a restart.
NextOver(Xs, maxB, maxT) ==
  \/ \E gap \in 1 .. MaxGap : time + gap <= maxT /\ update(time + gap)
  \/ \E randomX \in Xs, dir \in {1, -1} : placeBlock(randomX, dir, maxB)
  \/ togglePause
  \/ \E randomX \in Xs, dir \in {1, -1}, loadOk \in BOOLEAN : restart(randomX, dir, loadOk, maxB)

\* A pending delayed call fires.
TimerOver(Xs, maxB) ==
  \E randomX \in Xs, dir \in {1, -1} : delayedCall(randomX, dir, maxB)

\* Spawn positions (pixels) of Spec: the left wall (50), two positions 50 and 55
\* from it that are 5 apart, and the right wall (750).
SpawnXs == {50, 100, 105, 750}
\* Spawn positions of SpecTower: two columns more than half a width apart.
TowerXs == {400, 456}
\* Saved high scores found in local storage (0: none).
SavedScores == {0}

\* Spec: short games over the positions SpawnXs.  placeBlock() waits for a delayed
\* call only from the 8th block of a stack on, so none is ever pending here.
Init == InitOver(SpawnXs, SavedScores, {GameHeight})
Next == NextOver(SpawnXs, MaxBlocks, MaxTime)
Spec == Init /\ [][Next]_vars

\* SpecTower: tall towers over the positions TowerXs, with the delayed calls.
InitTower == InitOver(TowerXs, SavedScores, {GameHeight})
NextTower == NextOver(TowerXs, MaxTower, MaxTowerTime) \/ TimerOver(TowerXs, MaxTower)
SpecTower == InitTower /\ [][NextTower]_vars
\* The clock of the scene fires a pending delayed call on a later update of the
\* game loop: a call that stays pending does fire.
SpecTowerFair == SpecTower /\ WF_vars(TimerOver(TowerXs, MaxTower))

\* SpecMotion: short games with long frames, so that the velocity reaches its
\* clamp and the block crosses the screen, over a store that may hold a high score.
MotionXs == {50, 400, 750}
MotionSaved == {0, 60}
InitMotion == InitOver(MotionXs, MotionSaved, {GameHeight})
NextMotion ==
  \/ time + MotionGap <= 1 + MaxMotionFrames * MotionGap /\ update(time + MotionGap)
  \/ \E randomX \in MotionXs, dir \in {1, -1} : placeBlock(randomX, dir, MaxMotionBlocks)
  \/ togglePause
  \/ \E randomX \in MotionXs, dir \in {1, -1}, loadOk \in BOOLEAN :
        restart(randomX, dir, loadOk, MaxMotionBlocks)
SpecMotion == InitMotion /\ [][NextMotion]_vars

\* SpecCamera: towers in one column, with long frames that can carry the active
\* block off it, on canvases of four heights.  On the 740 canvas the first pan
\* has a target above 0; on the 800 canvas a stack of 8 is not yet tall enough
\* to pan; on the 480 canvas the 9th block spawns above y = 0.
CameraXs == {400}
CameraHeights == {480, GameHeight, 740, 800}
InitCamera == InitOver(CameraXs, SavedScores, CameraHeights)
NextCamera ==
  \/ time + MotionGap <= 1 + MaxCameraFrames * MotionGap /\ update(time + MotionGap)
  \/ \E randomX \in CameraXs, dir \in {1, -1} : placeBlock(randomX, dir, MaxCamera)
  \/ togglePause
  \/ \E randomX \in CameraXs, dir \in {1, -1}, loadOk \in BOOLEAN :
        restart(randomX, dir, loadOk, MaxCamera)
  \/ TimerOver(CameraXs, MaxCamera)
SpecCamera == InitCamera /\ [][NextCamera]_vars

\* SpecLevels: getCurrentBlockConfig() as a function of this.level.  The game is
\* entered at each level of 1 .. MaxLevel, as create() leaves it but for the level,
\* and played for a few steps; a restart returns to level 1.
LevelXs == {100, 400}
InitLevels ==
  \E lv \in 1 .. MaxLevel, randomX \in LevelXs, dir \in {1, -1} :
    LET new == createNewBlock(<< >>, << >>, lv, 0, randomX, dir)
    IN  /\ gameHeight = GameHeight
        /\ cameraPans = 0
        /\ InRange(lv, randomX)
        /\ score = 0 /\ level = lv /\ perfectStreak = 0
        /\ gameOver = FALSE /\ isPaused = FALSE
        /\ stackedBlocks = << >>
        /\ storage = 0
        /\ highScore = 0
        /\ blocks = new.blocks
        /\ currentBlock = new.currentBlock
        /\ cameraTargetY = new.cameraTargetY
        /\ moveSpeed = new.moveSpeed
        /\ currentVelocity = 0
        /\ lastFrameTime = 0
        /\ time = 1
        /\ pendingSpawns = 0
        /\ created = 1
        /\ restarts = 0
        /\ op = "create"
NextLevels == NextOver(LevelXs, MaxLevelBlocks, MaxLevelTime)
SpecLevels == InitLevels /\ [][NextLevels]_vars

\* SpecOscillate: the game loop delivers a frame every reference frame (dt = 1)
\* for as long as the scene runs; the player places the first block, early, so
\* that the second can start with the velocity of its predecessor, and then
\* only watches.
OscXs == {50, 400, 750}
\* The clock values at which the player may commit: the first block then has
\* velocity 0, 0.4, 0.8, 4 or 8.
OscCommitTimes == {1, 2, 3, 11, 21}
InitOscillate == InitOver(OscXs, SavedScores, {GameHeight})
Tick == time + 1 <= MaxOscTime /\ update(time + 1)
NextOscillate ==
  \/ Tick
  \/ /\ time \in OscCommitTimes
     /\ Len(stackedBlocks) = 0
     /\ \E randomX \in OscXs, dir \in {1, -1} : placeBlock(randomX, dir, MaxBlocks)
SpecOscillate == InitOscillate /\ [][NextOscillate]_vars /\ WF_vars(Tick)

\* ------------------------------------------------------------------ claims

\* The phase of the game, from the two flags the handlers test.
Phase == IF gameOver THEN "GameOver" ELSE IF isPaused THEN "Paused" ELSE "Playing"

\* A step is a placement commit processed in Playing.
CommitInPlaying == op' = "placeBlock" /\ ~gameOver /\ ~isPaused /\ currentBlock # 0
\* A step appends the active block to the stack: a successful placement.
Placed == op' = "placeBlock" /\ stackedBlocks' = Append(stackedBlocks, currentBlock)
\* The commit finds a stack and the active block less than 5 pixels from its top.
IsPerfect == Len(stackedBlocks) > 0 /\ Distance < Px(5)
\* The commit finds a stack and the active block more than half a width off.
IsMiss == Len(stackedBlocks) > 0 /\ 2 * Distance > Px(getCurrentBlockConfig(level).width)
\* The fields a frozen or paused game keeps.
GameFieldsUnchanged ==
  UNCHANGED << blocks, currentBlock, currentVelocity, moveSpeed, stackedBlocks, score,
               perfectStreak, level, gameOver >>

\* C1: every successful placement adds a flat 10 to the score, on top of the
\* perfect bonus: +10 for an ordinary or first placement, +10 + 50 * min(k, 5)
\* for a perfect placement that makes the streak k.
C1_FlatReward ==
  [][Placed =>
       score' = score + 10 + (IF IsPerfect THEN 50 * Min(perfectStreak', 5) ELSE 0)]_vars

\* C2: every successful placement that is not perfect resets perfectStreak to 0,
\* every perfect placement increases it by one, and it is never negative.
C2_StreakResets ==
  [][Placed =>
       /\ perfectStreak' = (IF IsPerfect THEN perfectStreak + 1 ELSE 0)
       /\ perfectStreak' >= 0]_vars

C4_LevelUp == level = 1 + (Len(stackedBlocks) \div 5)

\* C5: highScore >= score after every placement commit.
C5_HighScore == highScore >= score

\* C6: the outcome of a commit in Playing is decided by the stack and the distance
\* d to its top alone: empty stack, success without bonus; d > width / 2, miss;
\* otherwise d < 5, perfect; otherwise ordinary.
C6_Judge ==
  [][CommitInPlaying =>
       LET success == Placed /\ ~gameOver'
       IN  IF Len(stackedBlocks) = 0
           THEN success /\ Len(stackedBlocks') = 1 /\ UNCHANGED << score, perfectStreak >>
           ELSE IF 2 * Distance > Px(getCurrentBlockConfig(level).width)
           THEN gameOver' /\ UNCHANGED stackedBlocks
           ELSE IF Distance < Px(5)
           THEN success /\ perfectStreak' = perfectStreak + 1
           ELSE success /\ UNCHANGED << score, perfectStreak >>]_vars
\* Two ordinary placements at the edges of the range: the second block exactly half
\* a width (50) from the first, the third exactly 5 from the second.
C6_Witness ==
  /\ op = "placeBlock" /\ ~gameOver /\ Len(stackedBlocks) = 3 /\ perfectStreak = 0
  /\ Abs(blocks[stackedBlocks[2]].x - blocks[stackedBlocks[1]].x) = Px(50)
  /\ Abs(blocks[stackedBlocks[3]].x - blocks[stackedBlocks[2]].x) = Px(5)

\* C7: a miss enters GameOver without appending the block or changing the score;
\* in GameOver a frame, a commit and a pause toggle leave the blocks, the motion,
\* the stack, the score, the streak and the level as they are and the phase
\* GameOver; only a restart leaves GameOver.
C7_GameOverTerminal ==
  [][/\ (op' = "placeBlock" /\ ~gameOver /\ gameOver')
          => UNCHANGED << stackedBlocks, score, blocks, currentBlock >>
     /\ (gameOver /\ op' \in {"update", "placeBlock", "togglePause"})
          => GameFieldsUnchanged /\ Phase' = "GameOver"
     /\ (gameOver /\ ~gameOver') => op' = "restart"]_vars
\* A frame was delivered, and a pause toggled, after the game was over.
C7_Witness == gameOver /\ isPaused /\ op = "update" /\ time > lastFrameTime

\* C8: while paused, a frame and a placement commit change nothing of the game.
C8_PausedNoOp ==
  [][(isPaused /\ op' \in {"update", "placeBlock"})
       => GameFieldsUnchanged /\ UNCHANGED isPaused /\ Phase' = Phase]_vars
\* Paused in flight (the block has moved), and a commit arrived while paused.
C8_Witness ==
  /\ isPaused /\ ~gameOver /\ op = "placeBlock"
  /\ currentVelocity # 0 /\ time > lastFrameTime /\ lastFrameTime # 0

\* C9: a restart leaves score 0, level 1, streak 0, an empty stack, velocity 0,
\* the phase Playing, and a high score not lower than before.
C9_RestartResets ==
  [][op' = "restart" =>
       /\ score' = 0 /\ level' = 1 /\ perfectStreak' = 0
       /\ stackedBlocks' = << >> /\ currentVelocity' = 0
       /\ Phase' = "Playing" /\ highScore' >= highScore]_vars

\* C10: after every frame update processed in Playing the active block is within
\* [margin, gameWidth - margin].
C10_InBounds ==
  [][(op' = "update" /\ ~updateIgnored) =>
       /\ blocks'[currentBlock'].x >= Margin(level')
       /\ blocks'[currentBlock'].x <= Px(GameWidth) - Margin(level')]_vars
\* A frame carried the block past the right bound and it was put back on it.
C10_Witness ==
  /\ op = "update" /\ Active.x = Px(GameWidth) - Margin(level)
  /\ currentVelocity < 0 /\ moveSpeed < 0

\* C11: in every reachable state the velocity lies in [-MAX_SPEED, MAX_SPEED].
C11_VelocityBounded ==
  currentVelocity >= -Px(MAX_BLOCK_SPEED) /\ currentVelocity <= Px(MAX_BLOCK_SPEED)
\* A long frame drove the velocity into the clamp, and it survived a restart.
C11_Witness ==
  /\ Abs(currentVelocity) = Px(MAX_BLOCK_SPEED) /\ op = "restart"

\* C12: during a game the stack is append-only (a step leaves it unchanged or
\* appends one block at the top) and vertically regular: the bottom block is at
\* the baseline and every other block is 50 above its predecessor.
C12_StackRegular ==
  [][op' # "restart" =>
       /\ \/ stackedBlocks' = stackedBlocks
          \/ /\ Len(stackedBlocks') = Len(stackedBlocks) + 1
             /\ SubSeq(stackedBlocks', 1, Len(stackedBlocks)) = stackedBlocks
       /\ \A i \in 1 .. Len(stackedBlocks') :
            blocks'[stackedBlocks'[i]].y =
              IF i = 1 THEN baseY
              ELSE blocks'[stackedBlocks'[i - 1]].y - Px(BLOCK_BASE_HEIGHT)]_vars

\* C16: a commit that arrives while a deferred spawn is pending does not judge,
\* score or append the placed block again, and no block is in the stack twice.
C16_CommitsSerialized ==
  [][/\ (op' = "placeBlock" /\ pendingSpawns > 0) =>
          UNCHANGED << score, perfectStreak, stackedBlocks, gameOver >>
     /\ \A i, j \in 1 .. Len(stackedBlocks') :
          stackedBlocks'[i] = stackedBlocks'[j] => i = j]_vars

\* A step is a spawn that starts a camera pan after an earlier one of the same game.
LaterPan == cameraPans >= 1 /\ cameraPans' = cameraPans + 1

\* C14 (as stated): once the camera has engaged, a later spawn never sets a target
\* scroll smaller than an earlier one.
C14_CameraNonDecreasing == [][LaterPan => cameraTargetY' >= cameraTargetY]_vars
\* C14 (amended): once the camera has engaged, a later spawn never sets a target
\* scroll greater than an earlier one.
C14_CameraNonIncreasing == [][LaterPan => cameraTargetY' <= cameraTargetY]_vars
\* The second pan of a game has lowered the target from 18 to 0.
C14_Witness ==
  /\ op = "delayedCall" /\ cameraPans = 2
  /\ gameHeight = 740 /\ cameraTargetY = 0

\* C13: score is non-decreasing over every step of a game (every step but a
\* restart), and no step lowers highScore.
C13_ScoresMonotone ==
  [][/\ op' # "restart" => score' >= score
     /\ highScore' >= highScore]_vars
\* A game in which a perfect placement scored has been restarted, and the high
\* score loaded at the start is still in place.
C13_Witness == op = "restart" /\ perfectStreak = 1 /\ highScore = 60

\* C15: persistence failures are non-fatal.  When loading fails or finds nothing
\* the game starts (score 0, level 1, first block spawned) with highScore = 0, and
\* the in-memory highScore follows the score whether or not it could be saved.
C15_PersistenceNonFatal ==
  /\ op = "create" =>
       /\ score = 0 /\ level = 1 /\ ~gameOver /\ currentBlock = 1
       /\ highScore \in {0, storage}
       /\ storage = 0 => highScore = 0
  /\ highScore >= score

\* C17: a block is immutable once placed: no step of a game changes the x or y
\* of a block that is in the stack.
C17_PlacedImmutable ==
  [][op' # "restart" =>
       \A i \in 1 .. Len(stackedBlocks) :
         blocks'[stackedBlocks[i]] = blocks[stackedBlocks[i]]]_vars

\* C18: between the toggle that enters Paused and the toggle that leaves it, no
\* step changes the active block's identity or x, the velocity, moveSpeed or the
\* stack.
C18_PauseKeepsState ==
  [][(isPaused /\ isPaused') =>
       /\ UNCHANGED << currentBlock, currentVelocity, moveSpeed, stackedBlocks >>
       /\ blocks'[currentBlock].x = blocks[currentBlock].x]_vars

\* C19: every successful placement is followed by exactly one spawn: at once when
\* the stack then holds fewer than 8 blocks, else through one more pending delayed
\* call; spawns and pending calls together number the placements plus one; and a
\* pending call (that the bound on created blocks lets fire) leads to an active
\* block that is not in the stack.
C19_OneSpawnPerPlacement ==
  /\ [](Len(blocks) + pendingSpawns = Len(stackedBlocks) + 1)
  /\ [][Placed =>
          IF Len(stackedBlocks') < MIN_BLOCKS_FOR_CAMERA
          THEN /\ Len(blocks') = Len(blocks) + 1
               /\ currentBlock' = Len(blocks')
               /\ pendingSpawns' = pendingSpawns
          ELSE /\ blocks' = blocks
               /\ pendingSpawns' = pendingSpawns + 1]_vars
  /\ (pendingSpawns > 0 /\ created < MaxTower)
       ~> (\A i \in 1 .. Len(stackedBlocks) : stackedBlocks[i] # currentBlock)
\* A delayed call has spawned the ninth block of a game on a stack of eight.
C19_Witness ==
  /\ op = "delayedCall" /\ pendingSpawns = 0
  /\ Len(stackedBlocks) = 8 /\ currentBlock = 9 /\ Len(blocks) = 9

\* C20: the first frame after un-pausing advances the active block by the step of
\* an ordinary frame: its dt is the time since the last frame delivered, paused
\* or not.  (In the first game of a run, where only a pause makes update() skip.)
C20_ResumeSeamless ==
  [][(op' = "update" /\ ~updateIgnored /\ lastFrameTime # 0 /\ restarts = 0) =>
       LET deltaTime == time' - time
           v1 == Accelerate(currentVelocity, moveSpeed, deltaTime)
           m == MoveAndBounce(Active.x, v1, moveSpeed, deltaTime, Margin(level))
       IN  /\ blocks'[currentBlock].x = Snap(m.x, deltaTime)
           /\ currentVelocity' = m.velocity]_vars

\* A step spawns a new active block.
Spawned == op' = "restart" \/ Len(blocks') > Len(blocks)

\* C21: every spawn places the new active block at an x within
\* [margin, gameWidth - margin] and at y one block height above the top of the
\* stack (the baseline when it is empty), with moveSpeed +s or -s for the speed s
\* of the level, and the new block starts from a velocity that owes nothing to
\* the previous block: 0, or the nominal +s or -s.
C21_SpawnFresh ==
  [][Spawned =>
       LET new == blocks'[currentBlock']
           s == getCurrentBlockConfig(level').speed
       IN  /\ new.x >= Margin(level') /\ new.x <= Px(GameWidth) - Margin(level')
           /\ new.y = IF Len(stackedBlocks') = 0 THEN baseY
                      ELSE blocks'[stackedBlocks'[Len(stackedBlocks')]].y
                             - Px(BLOCK_BASE_HEIGHT)
           /\ moveSpeed' \in {s, -s}
           /\ currentVelocity' \in {0, moveSpeed'}]_vars

\* The snapping effect of update() (lines 316-323) on x toward target: what the
\* branch guarded by the placement guide computes when it runs.
SnapPull(x, target, deltaTime) ==
  LET distance == Abs(target - x)
  IN  IF distance < Px(BLOCK_SNAP_THRESHOLD)
      THEN Linear(x, target, (Px(BLOCK_SNAP_THRESHOLD) - distance) * deltaTime,
                  Px(BLOCK_SNAP_THRESHOLD) * 10)
      ELSE x

\* C22: on every frame processed in Playing with a non-empty stack, if after the
\* move and bounce the distance d to the top of the stack is below 10, x is moved
\* toward the top block's x by the fraction (1 - d/10) * 0.1 * dt of the gap; the
\* frame never places the block.
C22_SnapAssist ==
  [][(op' = "update" /\ ~updateIgnored /\ Len(stackedBlocks) > 0) =>
       LET deltaTime == IF lastFrameTime # 0 THEN time' - lastFrameTime ELSE 1
           v1 == Accelerate(currentVelocity, moveSpeed, deltaTime)
           m == MoveAndBounce(Active.x, v1, moveSpeed, deltaTime, Margin(level))
       IN  /\ blocks'[currentBlock].x = SnapPull(m.x, TopBlock.x, deltaTime)
           /\ stackedBlocks' = stackedBlocks]_vars

\* A step is a spawn on a stack of at least 8 blocks that is taller than 0.6 of
\* the viewport with the new block on it.
Retargets ==
  /\ Spawned
  /\ Len(stackedBlocks') >= 8
  /\ (Len(stackedBlocks') + 1) * 50 * 10 > gameHeight * 6

\* C23: a spawn changes the camera target only when the stack size is at least 8
\* and (stackSize + 1) * 50 > 0.6 * viewportHeight, and then sets it to
\* max(0, newBlockY - 0.3 * viewportHeight); every other step leaves the target
\* unchanged, and a restart resets it to 0.
C23_RetargetRule ==
  [][IF op' = "restart" THEN cameraTargetY' = 0
     ELSE IF Retargets
     THEN cameraTargetY' =
            Max(0, blocks'[currentBlock'].y - (Px(gameHeight) * 3) \div 10)
     ELSE cameraTargetY' = cameraTargetY]_vars
\* On the 800 canvas the spawn on 8 blocks left the target at 0 and the spawn on
\* 9 blocks has set it to 10.
C23_Witness ==
  /\ op = "delayedCall" /\ gameHeight = 800
  /\ Len(stackedBlocks) = 9 /\ cameraPans = 1 /\ cameraTargetY = Px(10)

\* C24: whenever the camera is retargeted the new target keeps the newest block
\* in the upper third of the view: 0 <= newBlockY - target <= viewportHeight / 3.
C24_UpperThird ==
  [][(Retargets /\ op' # "restart") =>
       LET offset == blocks'[currentBlock'].y - cameraTargetY'
       IN  offset >= 0 /\ 3 * offset <= Px(gameHeight)]_vars

\* C25: when a processed frame carries x to or past a bound of
\* [margin, gameWidth - margin], x is set to that bound, the velocity becomes -0.8
\* times its (accelerated and clamped) value, to the resolution of the fixed
\* point, and moveSpeed changes sign; otherwise moveSpeed is unchanged and the
\* velocity is clamp(velocity + moveSpeed * 0.2 * dt, -8, 8).
C25_WallBounce ==
  [][(op' = "update" /\ ~updateIgnored) =>
       LET deltaTime == IF lastFrameTime # 0 THEN time' - lastFrameTime ELSE 1
           a == currentVelocity + (moveSpeed * 2 * deltaTime) \div 10
           v1 == IF a > Px(8) THEN Px(8) ELSE IF a < -Px(8) THEN -Px(8) ELSE a
           x1 == Active.x + v1 * deltaTime
           lo == Margin(level)
           hi == Px(GameWidth) - Margin(level)
       IN  IF x1 >= hi \/ x1 <= lo
           THEN /\ blocks'[currentBlock].x = (IF x1 >= hi THEN hi ELSE lo)
                /\ Abs(10 * currentVelocity' + 8 * v1) < 10
                /\ moveSpeed' = -moveSpeed
           ELSE /\ blocks'[currentBlock].x = x1
                /\ currentVelocity' = v1
                /\ moveSpeed' = moveSpeed]_vars
\* A block arriving at full speed has bounced off the right wall: it sits on
\* the bound with velocity -6.4 and moveSpeed pointing left.
C25_Witness ==
  /\ op = "update" /\ currentBlock # 0
  /\ Active.x = Px(GameWidth) - Margin(level)
  /\ currentVelocity = -6400 /\ moveSpeed < 0

\* The shape the claim gives level lv: three levels per shape, period 12.
ShapeOf(lv) == blockTypes[(((lv - 1) \div 3) % 4) + 1]
\* speed - baseSpeed at level lv.
SpeedIncrease(lv) == getCurrentBlockConfig(lv).speed - ShapeOf(lv).speed

\* C26: at every level the shape is blockTypes[floor((level-1)/3) mod 4] (period
\* 12) and speed = baseSpeed + min((level-1) * 0.1, 2); speed - baseSpeed is
\* non-decreasing in level, at most 2, and 2 from level 21 on; the active block's
\* nominal speed is the speed of the level.
C26_DifficultyModel ==
  LET c == getCurrentBlockConfig(level)
  IN  /\ c.width = ShapeOf(level).width /\ c.height = ShapeOf(level).height
      /\ ShapeOf(level + 12) = ShapeOf(level)
      /\ ShapeOf(3 * ((level - 1) \div 3) + 1) = ShapeOf(level)
      /\ 10 * SpeedIncrease(level) = Min((level - 1) * Scale, 20 * Scale)
      /\ SpeedIncrease(level) <= SpeedIncrease(level + 1)
      /\ SpeedIncrease(level) <= Px(2)
      /\ level >= 21 => SpeedIncrease(level) = Px(2)
      /\ Abs(moveSpeed) = c.speed
\* A block has been placed at level 22, where the increase is capped: the next
\* one moves at 3.5 + 2.
C26_Witness ==
  /\ op = "placeBlock" /\ level = 22 /\ currentBlock = 2
  /\ Abs(moveSpeed) = 5500

\* The last frame put the active block on the left (right) bound.
AtLeftWall == op = "update" /\ ~gameOver /\ Active.x = Margin(level)
AtRightWall == op = "update" /\ ~gameOver /\ Active.x = Px(GameWidth) - Margin(level)
\* Playing, past the last commit, with OscHorizon frames still to come.
Watching ==
  /\ ~gameOver /\ time <= MaxOscTime - OscHorizon
  /\ \A t \in OscCommitTimes : time > t

\* The block leaves a wall as it does on every round of the settled oscillation:
\* it arrived at full speed and moves away at 0.8 of it, moveSpeed pointing away.
LeavesWall ==
  /\ AtLeftWall => currentVelocity = (Px(MAX_BLOCK_SPEED) * 8) \div 10 /\ moveSpeed > 0
  /\ AtRightWall => currentVelocity = -((Px(MAX_BLOCK_SPEED) * 8) \div 10) /\ moveSpeed < 0

\* C27: in Playing, with frames of dt = 1 and no commit, pause or game over, the
\* active block goes on reaching the left wall and the right wall: from every
\* state of that regime each wall is reached again (within OscHorizon frames),
\* and after OscHorizon frames every arrival at a wall leaves it in the same
\* state, so that the rounds repeat.
C27_Oscillates ==
  /\ Watching ~> AtLeftWall
  /\ Watching ~> AtRightWall
  /\ [](time > OscHorizon => LeavesWall)
\* The block is back on the right wall late in the run.
C27_Witness == AtRightWall /\ time > MaxOscTime - OscHorizon /\ currentBlock = 2

====
